---- MODULE Spec2Model ----
(***************************************************************************)
(* Notification dispatch of divergenttechbd/test-boilerplate.              *)
(*                                                                         *)
(* Part 1 (Spec): one invocation of NotificationsService.send, the         *)
(*   multi-channel dispatcher of notifications.service.ts, with the        *)
(*   Delivery Report table and the channel transports it calls.  An        *)
(*   invocation keeps its position in local variables and shares nothing   *)
(*   with other invocations but the table it appends to, so the model      *)
(*   follows one invocation (one request) from call to return.             *)
(* Part 2 (QueueSpec): the Bull queue pipeline: NotificationProducer,      *)
(*   NotificationConsumer and NotificationRetryProcessor, with several     *)
(*   jobs and several processors running side by side.                     *)
(* Part 3 (CrudSpec): UsersService and RolesService over their in-memory   *)
(*   repositories, behind the controllers and the global ValidationPipe.   *)
(***************************************************************************)
EXTENDS Integers, Sequences, FiniteSets, TLC

(* ---------------------------- bounds ----------------------------------- *)
\* longest channel list of a payload
MaxChannels == 3
\* failures of the Delivery Report store (save rejects) in one behaviour
MaxStoreFaults == 1
\* jobs added to the 'notifications' queue in one behaviour
MaxJobs == 2
\* jobs the processors of the 'notifications' queue run side by side
MaxWorkers == 2
\* largest configured notification.retryThreshold
MaxThreshold == 4
\* milliseconds the clock advances in one step
TickMs == 5000
\* deaths of a processor that holds a job, in one behaviour
MaxStalls == 2
\* users and roles created in one behaviour
MaxEntities == 2
\* requests to the users and roles controllers in one behaviour
MaxCrudOps == 4

(* ------------------------ program constants ---------------------------- *)
\* type NotificationChannel = 'email' | 'sms' | 'whatsapp' | 'slack' | 'discord'
KnownChannels == {"email", "sms", "whatsapp", "slack", "discord"}
\* channel identifiers a caller passes at run time; "fax" is in no case of the switch
InputChannels == {"email", "sms", "fax"}
\* data.channel of the jobs the callers of the producer add: one channel the
\* switch of send knows (all of them are handled alike) and one it does not
JobChannels == {"email", "fax"}
\* what a transport call does: resolves, or throws a transient or a permanent error
Outcomes == {"ok", "transient", "permanent"}
\* transport invocations send makes on one channel: the try block and one retry
MaxAttemptsPerChannel == 2
\* queue.add(..., { attempts: 3 }): Bull runs a job at most 3 times
JobAttempts == 3
\* queue.add(..., { backoff: 5000 }): a number is Bull's fixed backoff, in ms
JobBackoff == 5000
\* configService.get('notification.retryThreshold', 3)
DefaultRetryThreshold == 3
\* Bull's maxStalledCount where the queue is registered without settings
MaxStalledCount == 1

\* NOTIFICATION_RETRY_THRESHOLD values the configuration may hold
Thresholds == 1..MaxThreshold
\* scheduleAt - Date.now() of scheduleNotification, in ms: past, now or future
ScheduleDelays == {0 - TickMs, 0, TickMs}

RECURSIVE SeqsUpTo(_, _)
SeqsUpTo(S, n) ==
  IF n = 0 THEN {<<>>}
  ELSE LET shorter == SeqsUpTo(S, n - 1)
       IN shorter \cup {Append(s, x) : s \in {t \in shorter : Len(t) = n - 1}, x \in S}

\* payload.channels: NotificationChannel[] with one or more channels
ChannelLists == {s \in SeqsUpTo(InputChannels, MaxChannels) : Len(s) >= 1}

VARIABLES
  payload,      \* payload.channels of the invocation (<<>> before the call)
  pc,           \* where the invocation of send stands
  idx,          \* position in payload.channels of the for loop
  caught,       \* the error the catch block holds
  reports,      \* the Delivery Report table: one row per saved report
  sends,        \* the transport invocations made so far, in order
  storeFaults   \* number of rejected saves so far

VARIABLES
  maxRetries,   \* this.maxRetries of the consumer and of the retry processor
  jobs,         \* jobs[j]: the Bull job with id j
  wait,         \* Bull's wait list: ids of the jobs ready to run, oldest first
  delayed,      \* Bull's delayed set: ids of the jobs held until they are due
  active,       \* Bull's active list: ids of the jobs being processed
  completed,    \* Bull's completed set
  failed,       \* Bull's failed set
  failedJobs,   \* the retry processor's snapshot of failed jobs still to visit
  submits       \* calls of the producer so far

VARIABLES
  users,        \* the array of UsersRepository
  roles,        \* the array of RolesRepository
  uuids,        \* calls of uuid() so far
  opCount,      \* requests handled so far; the clock of new Date()
  lastOp        \* the last request and the way it ended

sendVars == <<payload, pc, idx, caught, reports, sends, storeFaults>>
queueVars == <<maxRetries, jobs, wait, delayed, active, completed, failed,
               failedJobs, submits>>
crudVars == <<users, roles, uuids, opCount, lastOp>>
vars == <<sendVars, queueVars, crudVars>>

(* ----------------- NotificationsService.send (multi-channel) ----------- *)

\* a loop that steps over the channel after the current one
NextIdxSkipping(chs, k) ==
  IF k + 2 <= Len(chs) THEN k + 2 ELSE Len(chs) + 1

\* the for loop with its switch default: an unknown channel is logged and
\* skipped (continue), so the loop stops at the next known channel after k
NextIdx(chs, k) ==
  IF \E j \in (k + 1)..Len(chs) : chs[j] \in KnownChannels
  THEN CHOOSE j \in (k + 1)..Len(chs) :
         /\ chs[j] \in KnownChannels
         /\ \A m \in (k + 1)..(j - 1) : chs[m] \notin KnownChannels
  ELSE Len(chs) + 1

\* the loop moves on from position k
Continue(k) ==
  LET n == NextIdx(payload, k)
  IN /\ idx' = n
     /\ pc' = IF n > Len(payload) THEN "done" ELSE "try"

\* deliveryReportService.save: create the row and save it
Report(st, rc, msg) ==
  [pos |-> idx, channel |-> payload[idx],
   status |-> st, retryCount |-> rc, errorMessage |-> msg]

\* the store accepts the save, or rejects it (store unwritable)
StoreAnswers == {TRUE, FALSE}

StoreAnswer(ok) ==
  /\ ok \in StoreAnswers
  /\ IF ok THEN storeFaults' = storeFaults
     ELSE /\ storeFaults < MaxStoreFaults
          /\ storeFaults' = storeFaults + 1

Invocation(att, out) ==
  [pos |-> idx, channel |-> payload[idx],
   attempt |-> att, outcome |-> out]

\* a caller invokes send(payload)
Send(chs) ==
  /\ pc = "idle"
  /\ payload' = chs
  /\ LET n == NextIdx(chs, 0)
     IN /\ idx' = n
        /\ pc' = IF n > Len(chs) THEN "done" ELSE "try"
  /\ UNCHANGED <<caught, reports, sends, storeFaults>>
  /\ UNCHANGED <<queueVars, crudVars>>

\* try block: the switch awaits the transport of the channel
SendTransport(out) ==
  /\ pc = "try"
  /\ sends' = Append(sends, Invocation(1, out))
  /\ IF out = "ok"
     THEN /\ pc' = "saveSuccess"
          /\ caught' = caught
     ELSE /\ pc' = "catch"
          /\ caught' = out
  /\ UNCHANGED <<payload, idx, reports, storeFaults>>
  /\ UNCHANGED <<queueVars, crudVars>>

\* try block: status = 'success'; save the success report (retryCount 0);
\* a rejected save throws inside the try block and lands in the catch block
SaveSuccess(ok) ==
  /\ pc = "saveSuccess"
  /\ StoreAnswer(ok)
  /\ IF ok
     THEN /\ reports' = Append(reports, Report("success", 0, "none"))
          /\ Continue(idx)
          /\ caught' = caught
     ELSE /\ reports' = reports
          /\ pc' = "catch"
          /\ idx' = idx
          /\ caught' = "store"
  /\ UNCHANGED <<payload, sends>>
  /\ UNCHANGED <<queueVars, crudVars>>

\* a catch block that saves the failed report and never retries
CatchSaveFailNoRetry(ok) ==
  /\ pc = "catch"
  /\ StoreAnswer(ok)
  /\ IF ok
     THEN /\ reports' = Append(reports, Report("fail", 1, caught))
          /\ Continue(idx)
     ELSE /\ reports' = reports
          /\ pc' = "thrown"
          /\ idx' = idx
  /\ UNCHANGED <<payload, caught, sends>>
  /\ UNCHANGED <<queueVars, crudVars>>

\* catch block: save the failed report (retryCount 1); a rejected save
\* throws out of the catch block and send rejects
CatchSaveFail(ok) ==
  /\ pc = "catch"
  /\ StoreAnswer(ok)
  /\ IF ok
     THEN /\ reports' = Append(reports, Report("fail", 1, caught))
          /\ pc' = "retry"
     ELSE /\ reports' = reports
          /\ pc' = "thrown"
  /\ UNCHANGED <<payload, idx, caught, sends>>
  /\ UNCHANGED <<queueVars, crudVars>>

\* a retry that is skipped when the caught error is a permanent one
RetryTransportUnlessPermanent(out) ==
  /\ pc = "retry"
  /\ IF caught = "permanent"
     THEN /\ out = "permanent"
          /\ Continue(idx)
          /\ UNCHANGED <<sends, caught>>
     ELSE /\ sends' = Append(sends, Invocation(2, out))
          /\ idx' = idx
          /\ IF out = "ok"
             THEN /\ pc' = "saveRetrySuccess"
                  /\ caught' = caught
             ELSE /\ pc' = "retryCatch"
                  /\ caught' = out
  /\ UNCHANGED <<payload, reports, storeFaults>>
  /\ UNCHANGED <<queueVars, crudVars>>

\* catch block: basic retry once more after failure
RetryTransport(out) ==
  /\ pc = "retry"
  /\ sends' = Append(sends, Invocation(2, out))
  /\ IF out = "ok"
     THEN /\ pc' = "saveRetrySuccess"
          /\ caught' = caught
     ELSE /\ pc' = "retryCatch"
          /\ caught' = out
  /\ UNCHANGED <<payload, idx, reports, storeFaults>>
  /\ UNCHANGED <<queueVars, crudVars>>

\* a save that turns the failed report of the first attempt into the
\* success report instead of adding a row
SaveRetrySuccessUpdating(ok) ==
  /\ pc = "saveRetrySuccess"
  /\ StoreAnswer(ok)
  /\ IF ok
     THEN /\ reports' = [reports EXCEPT ![Len(reports)] = Report("success", 1, "none")]
          /\ Continue(idx)
          /\ caught' = caught
     ELSE /\ reports' = reports
          /\ pc' = "retryCatch"
          /\ idx' = idx
          /\ caught' = "store"
  /\ UNCHANGED <<payload, sends>>
  /\ UNCHANGED <<queueVars, crudVars>>

\* inner try: save the success report of the retry (retryCount 1); a
\* rejected save lands in the inner catch
SaveRetrySuccess(ok) ==
  /\ pc = "saveRetrySuccess"
  /\ StoreAnswer(ok)
  /\ IF ok
     THEN /\ reports' = Append(reports, Report("success", 1, "none"))
          /\ Continue(idx)
          /\ caught' = caught
     ELSE /\ reports' = reports
          /\ pc' = "retryCatch"
          /\ idx' = idx
          /\ caught' = "store"
  /\ UNCHANGED <<payload, sends>>
  /\ UNCHANGED <<queueVars, crudVars>>

\* an inner catch that only logs the error of the retry and saves no report
RetryCatchNoReport(ok) ==
  /\ pc = "retryCatch"
  /\ StoreAnswer(ok)
  /\ reports' = reports
  /\ IF ok
     THEN Continue(idx)
     ELSE /\ pc' = "thrown"
          /\ idx' = idx
  /\ UNCHANGED <<payload, caught, sends>>
  /\ UNCHANGED <<queueVars, crudVars>>

\* an inner catch that saves the failed report of the retry and rethrows
RetryCatchRethrow(ok) ==
  /\ pc = "retryCatch"
  /\ StoreAnswer(ok)
  /\ reports' = IF ok THEN Append(reports, Report("fail", 2, caught)) ELSE reports
  /\ pc' = "thrown"
  /\ UNCHANGED <<payload, idx, caught, sends>>
  /\ UNCHANGED <<queueVars, crudVars>>

\* inner catch: save the failed report of the retry (retryCount 2), then the
\* loop goes on with the next channel; a rejected save makes send reject
RetryCatchSaveFail(ok) ==
  /\ pc = "retryCatch"
  /\ StoreAnswer(ok)
  /\ IF ok
     THEN /\ reports' = Append(reports, Report("fail", 2, caught))
          /\ Continue(idx)
     ELSE /\ reports' = reports
          /\ pc' = "thrown"
          /\ idx' = idx
  /\ UNCHANGED <<payload, caught, sends>>
  /\ UNCHANGED <<queueVars, crudVars>>

(* ------------------------- the Bull queue ------------------------------ *)

Max(a, b) == IF a >= b THEN a ELSE b

\* the job queue.add builds: the data, the options of the producer, no run
\* yet; delay is the time in ms the job is still held back (Bull takes a
\* negative delay as none)
NewJob(ch, delay) ==
  [channel |-> ch, attempts |-> JobAttempts, backoff |-> JobBackoff,
   attemptsMade |-> 0, delay |-> Max(delay, 0),
   runs |-> 0, delays |-> <<>>, exceeded |-> FALSE,
   lastSend |-> "none", threw |-> FALSE, stalled |-> 0]

\* the ids of the jobs that are neither completed nor failed
Live == {j \in 1..Len(jobs) : j \notin completed /\ j \notin failed}

\* an add that drops a job whose data equals that of a live job
AddDeduplicating(job) ==
  IF \E j \in Live : jobs[j].channel = job.channel
  THEN UNCHANGED <<jobs, wait, delayed>>
  ELSE LET id == Len(jobs) + 1
       IN /\ jobs' = Append(jobs, job)
          /\ IF job.delay > 0
             THEN /\ delayed' = delayed \cup {id}
                  /\ wait' = wait
             ELSE /\ wait' = Append(wait, id)
                  /\ delayed' = delayed

\* an add that puts every job into the wait list, whatever its delay
AddIgnoringDelay(job) ==
  /\ jobs' = Append(jobs, job)
  /\ wait' = Append(wait, Len(jobs) + 1)
  /\ delayed' = delayed

\* queue.add: the job gets the next id and goes to the delayed set when its
\* delay is positive, to the wait list otherwise
Add(job) ==
  LET id == Len(jobs) + 1
  IN /\ jobs' = Append(jobs, job)
     /\ IF job.delay > 0
        THEN /\ delayed' = delayed \cup {id}
             /\ wait' = wait
        ELSE /\ wait' = Append(wait, id)
             /\ delayed' = delayed

\* NotificationProducer.queueNotification(data)
QueueNotification(ch) ==
  /\ submits < MaxJobs
  /\ submits' = submits + 1
  /\ Add(NewJob(ch, 0))
  /\ UNCHANGED <<maxRetries, active, completed, failed, failedJobs>>
  /\ UNCHANGED <<sendVars, crudVars>>

\* NotificationProducer.scheduleNotification(data), delay = scheduleAt - now
ScheduleNotification(ch, delay) ==
  /\ submits < MaxJobs
  /\ submits' = submits + 1
  /\ Add(NewJob(ch, delay))
  /\ UNCHANGED <<maxRetries, active, completed, failed, failedJobs>>
  /\ UNCHANGED <<sendVars, crudVars>>

\* Bull hands the oldest waiting job to a processor that is free
Dequeue ==
  /\ Cardinality(active) < MaxWorkers
  /\ wait # <<>>
  /\ active' = active \cup {Head(wait)}
  /\ wait' = Tail(wait)
  /\ UNCHANGED <<maxRetries, jobs, delayed, completed, failed, failedJobs, submits>>
  /\ UNCHANGED <<sendVars, crudVars>>

\* a backoff that shrinks with the attempts made
BackoffShrinking(job) == job.backoff \div job.attemptsMade

\* the delay Bull waits before the next run of a job with a numeric backoff
Backoff(job) == job.backoff

\* what NotificationsService.send(data) of the queue version can do: the
\* switch returns the channel's send, or throws 'Unsupported channel'
SendResults(ch) ==
  IF ch \in KnownChannels THEN Outcomes ELSE {"unsupported"}

\* Bull's job.moveToCompleted: the handler resolved
MoveToCompleted(j, ran) ==
  /\ jobs' = [jobs EXCEPT ![j] = ran]
  /\ completed' = completed \cup {j}
  /\ UNCHANGED <<delayed, failed, wait>>

\* a failure handling that puts a retried job into the delayed set and into
\* the wait list as well
MoveToFailedTwice(j, thrown) ==
  IF thrown.attemptsMade < thrown.attempts
  THEN /\ jobs' = [jobs EXCEPT ![j] =
             [thrown EXCEPT !.delay = Backoff(thrown),
                            !.delays = Append(@, Backoff(thrown))]]
       /\ delayed' = delayed \cup {j}
       /\ wait' = Append(wait, j)
       /\ UNCHANGED <<completed, failed>>
  ELSE /\ jobs' = [jobs EXCEPT ![j] = thrown]
       /\ failed' = failed \cup {j}
       /\ UNCHANGED <<completed, delayed, wait>>

\* a failure handling that holds the retry of a job with attempts left and
\* puts a job without attempts left nowhere
MoveToFailedDropping(j, thrown) ==
  /\ jobs' = [jobs EXCEPT ![j] =
        IF thrown.attemptsMade < thrown.attempts
        THEN [thrown EXCEPT !.delay = Backoff(thrown),
                            !.delays = Append(@, Backoff(thrown))]
        ELSE thrown]
  /\ delayed' = IF thrown.attemptsMade < thrown.attempts
                THEN delayed \cup {j} ELSE delayed
  /\ UNCHANGED <<completed, failed, wait>>

\* Bull's job.moveToFailed: the handler threw and the attempt is counted;
\* with attempts left the job is held for its backoff (or put back to the
\* wait list when there is none), otherwise it goes to the failed set
MoveToFailed(j, thrown) ==
  IF thrown.attemptsMade < thrown.attempts
  THEN IF Backoff(thrown) > 0
       THEN /\ jobs' = [jobs EXCEPT ![j] =
                  [thrown EXCEPT !.delay = Backoff(thrown),
                                 !.delays = Append(@, Backoff(thrown))]]
            /\ delayed' = delayed \cup {j}
            /\ UNCHANGED <<completed, failed, wait>>
       ELSE /\ jobs' = [jobs EXCEPT ![j] = thrown]
            /\ wait' = Append(wait, j)
            /\ UNCHANGED <<completed, failed, delayed>>
  ELSE /\ jobs' = [jobs EXCEPT ![j] = thrown]
       /\ failed' = failed \cup {j}
       /\ UNCHANGED <<completed, delayed, wait>>

\* a handler whose catch block logs the error and does not rethrow it
HandleNotificationSwallowing(j, out) ==
  /\ j \in active
  /\ out \in SendResults(jobs[j].channel)
  /\ active' = active \ {j}
  /\ MoveToCompleted(j, [jobs[j] EXCEPT !.runs = @ + 1, !.lastSend = out,
                                        !.threw = FALSE])
  /\ UNCHANGED <<maxRetries, failedJobs, submits>>
  /\ UNCHANGED <<sendVars, crudVars>>

\* a handler that acks a job without calling send when a job with the same
\* data has completed already
HandleNotificationAbsorbing(j, out) ==
  /\ j \in active
  /\ out \in SendResults(jobs[j].channel)
  /\ active' = active \ {j}
  /\ LET job == jobs[j]
         made == job.attemptsMade + 1
         ran == [job EXCEPT !.runs = @ + 1, !.lastSend = out,
                            !.threw = (out # "ok")]
         thrown == [ran EXCEPT !.attemptsMade = made,
                               !.exceeded = @ \/ (made >= maxRetries)]
     IN IF \E k \in completed : k # j /\ jobs[k].channel = job.channel
        THEN MoveToCompleted(j, job)
        ELSE IF out = "ok"
             THEN MoveToCompleted(j, ran)
             ELSE MoveToFailed(j, thrown)
  /\ UNCHANGED <<maxRetries, failedJobs, submits>>
  /\ UNCHANGED <<sendVars, crudVars>>

\* NotificationConsumer.handleNotification(job) with Bull's handling of its
\* result: completed when send resolves; when it throws, the consumer logs,
\* warns at the threshold and rethrows, and Bull counts the attempt and
\* either delays the job by its backoff or moves it to the failed set
HandleNotification(j, out) ==
  /\ j \in active
  /\ out \in SendResults(jobs[j].channel)
  /\ active' = active \ {j}
  /\ LET job == jobs[j]
         made == job.attemptsMade + 1
         ran == [job EXCEPT !.runs = @ + 1, !.lastSend = out,
                            !.threw = (out # "ok")]
         thrown == [ran EXCEPT !.attemptsMade = made,
                               !.exceeded = @ \/ (made >= maxRetries)]
     IN IF out = "ok"
        THEN MoveToCompleted(j, ran)
        ELSE MoveToFailed(j, thrown)
  /\ UNCHANGED <<maxRetries, failedJobs, submits>>
  /\ UNCHANGED <<sendVars, crudVars>>

\* Bull moves a delayed job to the wait list once its delay has passed
Promote(j) ==
  /\ j \in delayed
  /\ jobs[j].delay <= 0
  /\ delayed' = delayed \ {j}
  /\ wait' = Append(wait, j)
  /\ UNCHANGED <<maxRetries, jobs, active, completed, failed, failedJobs, submits>>
  /\ UNCHANGED <<sendVars, crudVars>>

\* time passes while some delayed job is not yet due
Tick ==
  /\ \E j \in delayed : jobs[j].delay > 0
  /\ jobs' = [j \in 1..Len(jobs) |->
                IF j \in delayed
                THEN [jobs[j] EXCEPT !.delay = Max(@ - TickMs, 0)]
                ELSE jobs[j]]
  /\ UNCHANGED <<maxRetries, wait, delayed, active, completed, failed, failedJobs, submits>>
  /\ UNCHANGED <<sendVars, crudVars>>

\* the stalls counted on the first n jobs
RECURSIVE StallsUpTo(_)
StallsUpTo(n) ==
  IF n = 0 THEN 0 ELSE jobs[n].stalled + StallsUpTo(n - 1)

\* a stall check that forgets the job of a dead processor
StallDropping(j) ==
  /\ j \in active
  /\ StallsUpTo(Len(jobs)) < MaxStalls
  /\ active' = active \ {j}
  /\ UNCHANGED <<maxRetries, jobs, wait, delayed, completed, failed, failedJobs, submits>>
  /\ UNCHANGED <<sendVars, crudVars>>

\* a processor dies between taking job j and finishing it, before its send
\* has come back: the lock of the job runs out and Bull's stall check puts
\* the job back at the front of the wait list, or into the failed set once
\* it has stalled more than maxStalledCount times
Stall(j) ==
  /\ j \in active
  /\ StallsUpTo(Len(jobs)) < MaxStalls
  /\ active' = active \ {j}
  /\ jobs' = [jobs EXCEPT ![j].stalled = @ + 1]
  /\ IF jobs[j].stalled + 1 > MaxStalledCount
     THEN /\ failed' = failed \cup {j}
          /\ wait' = wait
     ELSE /\ wait' = <<j>> \o wait
          /\ failed' = failed
  /\ UNCHANGED <<maxRetries, delayed, completed, failedJobs, submits>>
  /\ UNCHANGED <<sendVars, crudVars>>

\* the orders getFailed() can return the failed set in
Orders(S) ==
  {s \in SeqsUpTo(S, Cardinality(S)) :
     Len(s) = Cardinality(S) /\ \A x \in S : \E k \in 1..Len(s) : s[k] = x}

\* NotificationRetryProcessor.processFailedJobs, the cron pass: getFailed()
ProcessFailedJobs(order) ==
  /\ failedJobs = <<>>
  /\ failed # {}
  /\ order \in Orders(failed)
  /\ failedJobs' = order
  /\ UNCHANGED <<maxRetries, jobs, wait, delayed, active, completed, failed, submits>>
  /\ UNCHANGED <<sendVars, crudVars>>

\* a retry that leaves the job in the failed set
JobRetryKeepingFailed(j) ==
  /\ failed' = failed
  /\ wait' = Append(wait, j)

\* job.retry(): Bull moves the failed job back to the wait list
JobRetry(j) ==
  /\ failed' = failed \ {j}
  /\ wait' = Append(wait, j)

\* a loop turn that retries the failed job whatever its attemptsMade
VisitFailedJobIgnoringCeiling ==
  /\ failedJobs # <<>>
  /\ JobRetry(Head(failedJobs))
  /\ failedJobs' = Tail(failedJobs)
  /\ UNCHANGED <<maxRetries, jobs, delayed, active, completed, submits>>
  /\ UNCHANGED <<sendVars, crudVars>>

\* one turn of the loop of processFailedJobs: retry the job when its
\* attemptsMade is below maxRetries, otherwise only warn
VisitFailedJob ==
  /\ failedJobs # <<>>
  /\ LET j == Head(failedJobs)
     IN IF jobs[j].attemptsMade < maxRetries
        THEN JobRetry(j)
        ELSE UNCHANGED <<failed, wait>>
  /\ failedJobs' = Tail(failedJobs)
  /\ UNCHANGED <<maxRetries, jobs, delayed, active, completed, submits>>
  /\ UNCHANGED <<sendVars, crudVars>>

(* ------------------ users and roles: services and repositories --------- *)

\* the properties of UpdateUserDto
UpdateUserDto == {"name", "isActive"}
\* the properties of UpdateRoleDto: those of CreateRoleDto, all optional
UpdateRoleDto == {"name", "description", "isDefault"}

\* request bodies of PUT /users/:id; the last one carries a property the
\* DTO does not have
UserBodies ==
  {[name |-> "b"], [isActive |-> FALSE], [name |-> "b", isActive |-> FALSE],
   [id |-> MaxEntities]}
\* request bodies of PUT /roles/:id
RoleBodies ==
  {[name |-> "b"], [isDefault |-> TRUE], [name |-> "b", description |-> "d"],
   [id |-> MaxEntities]}
\* request bodies of POST /roles: isDefault given, or left out
CreateRoleBodies ==
  {[name |-> "a", description |-> "c"],
   [name |-> "a", description |-> "c", isDefault |-> TRUE]}

\* ValidationPipe({ whitelist: true, forbidNonWhitelisted: true }): a body
\* with a property the DTO does not have is rejected
ValidationPipe(body, dto) == DOMAIN body \subseteq dto

\* new Date() while a request is handled
Now == opCount + 1

\* uuid(): an id that was never given out before
Uuid == uuids + 1

\* array.findIndex(e => e.id === id): the first index, counted from 0, of an
\* element with that id, and -1 when there is none
FindIndex(repo, id) ==
  IF \E k \in 1..Len(repo) : repo[k].id = id
  THEN (CHOOSE k \in 1..Len(repo) :
          /\ repo[k].id = id
          /\ \A m \in 1..(k - 1) : repo[m].id # id) - 1
  ELSE 0 - 1

\* { ...entity, ...updates, updatedAt: new Date() }
Spread(entity, updates) ==
  [f \in DOMAIN entity \cup DOMAIN updates |->
     IF f = "updatedAt" THEN Now
     ELSE IF f \in DOMAIN updates THEN updates[f]
     ELSE entity[f]]

\* UsersRepository.update at an index that was found
UsersRepositoryUpdate(index, updates) ==
  [users EXCEPT ![index + 1] = Spread(@, updates)]

\* UsersRepository.delete at an index that was found: splice(index, 1)
UsersRepositoryDelete(index) ==
  SubSeq(users, 1, index) \o SubSeq(users, index + 2, Len(users))

\* RolesRepository.update at an index that was found
RolesRepositoryUpdate(index, updates) ==
  [roles EXCEPT ![index + 1] = Spread(@, updates)]

\* RolesRepository.delete at an index that was found: splice(index, 1)
RolesRepositoryDelete(index) ==
  SubSeq(roles, 1, index) \o SubSeq(roles, index + 2, Len(roles))

\* a request was handled and has its response
Ended(svc, op, id, outcome) ==
  /\ opCount' = opCount + 1
  /\ lastOp' = [svc |-> svc, op |-> op, id |-> id, outcome |-> outcome]

\* POST /users: UsersService.createUser and UsersRepository.create
CreateUser ==
  /\ opCount < MaxCrudOps
  /\ uuids < MaxEntities
  /\ users' = Append(users, [name |-> "a", isActive |-> TRUE, id |-> Uuid,
                             createdAt |-> Now, updatedAt |-> Now])
  /\ uuids' = Uuid
  /\ Ended("users", "create", Uuid, "ok")
  /\ UNCHANGED roles
  /\ UNCHANGED <<sendVars, queueVars>>

\* a PUT /users/:id whose body reaches the repository unvalidated
UpdateUserUnvalidated(id, body) ==
  /\ opCount < MaxCrudOps
  /\ LET index == FindIndex(users, id)
     IN IF index = 0 - 1
        THEN /\ users' = users
             /\ Ended("users", "update", id, "NotFound")
        ELSE /\ users' = UsersRepositoryUpdate(index, body)
             /\ Ended("users", "update", id, "ok")
  /\ UNCHANGED <<roles, uuids>>
  /\ UNCHANGED <<sendVars, queueVars>>

\* PUT /users/:id: the pipe validates the body, then UsersService.updateUser
\* and UsersRepository.update; NotFoundException when update returns null
UpdateUser(id, body) ==
  /\ opCount < MaxCrudOps
  /\ IF ~ValidationPipe(body, UpdateUserDto)
     THEN /\ users' = users
          /\ Ended("users", "update", id, "BadRequest")
     ELSE LET index == FindIndex(users, id)
          IN IF index = 0 - 1
             THEN /\ users' = users
                  /\ Ended("users", "update", id, "NotFound")
             ELSE /\ users' = UsersRepositoryUpdate(index, body)
                  /\ Ended("users", "update", id, "ok")
  /\ UNCHANGED <<roles, uuids>>
  /\ UNCHANGED <<sendVars, queueVars>>

\* DELETE /users/:id: UsersService.deleteUser and UsersRepository.delete;
\* NotFoundException when delete returns false
DeleteUser(id) ==
  /\ opCount < MaxCrudOps
  /\ LET index == FindIndex(users, id)
     IN IF index = 0 - 1
        THEN /\ users' = users
             /\ Ended("users", "delete", id, "NotFound")
        ELSE /\ users' = UsersRepositoryDelete(index)
             /\ Ended("users", "delete", id, "ok")
  /\ UNCHANGED <<roles, uuids>>
  /\ UNCHANGED <<sendVars, queueVars>>

\* POST /roles: RolesService.createRole and RolesRepository.create, both
\* with isDefault ?? false
CreateRole(dto) ==
  /\ opCount < MaxCrudOps
  /\ uuids < MaxEntities
  /\ roles' = Append(roles,
       [name |-> dto.name, description |-> dto.description,
        isDefault |-> IF "isDefault" \in DOMAIN dto THEN dto.isDefault ELSE FALSE,
        id |-> Uuid, createdAt |-> Now, updatedAt |-> Now])
  /\ uuids' = Uuid
  /\ Ended("roles", "create", Uuid, "ok")
  /\ UNCHANGED users
  /\ UNCHANGED <<sendVars, queueVars>>

\* PUT /roles/:id: the pipe validates the body, then RolesService.updateRole
\* and RolesRepository.update; NotFoundException when update returns null
UpdateRole(id, body) ==
  /\ opCount < MaxCrudOps
  /\ IF ~ValidationPipe(body, UpdateRoleDto)
     THEN /\ roles' = roles
          /\ Ended("roles", "update", id, "BadRequest")
     ELSE LET index == FindIndex(roles, id)
          IN IF index = 0 - 1
             THEN /\ roles' = roles
                  /\ Ended("roles", "update", id, "NotFound")
             ELSE /\ roles' = RolesRepositoryUpdate(index, body)
                  /\ Ended("roles", "update", id, "ok")
  /\ UNCHANGED <<users, uuids>>
  /\ UNCHANGED <<sendVars, queueVars>>

\* DELETE /roles/:id: RolesService.deleteRole and RolesRepository.delete;
\* NotFoundException when delete returns false
DeleteRole(id) ==
  /\ opCount < MaxCrudOps
  /\ LET index == FindIndex(roles, id)
     IN IF index = 0 - 1
        THEN /\ roles' = roles
             /\ Ended("roles", "delete", id, "NotFound")
        ELSE /\ roles' = RolesRepositoryDelete(index)
             /\ Ended("roles", "delete", id, "ok")
  /\ UNCHANGED <<users, uuids>>
  /\ UNCHANGED <<sendVars, queueVars>>

\* the repositories as constructed: private users = [], private roles = []
CrudInit ==
  /\ users = <<>>
  /\ roles = <<>>
  /\ uuids = 0
  /\ opCount = 0
  /\ lastOp = [svc |-> "none", op |-> "none", id |-> 0, outcome |-> "none"]

\* the queue before any job is added
QueueInit ==
  /\ jobs = <<>>
  /\ wait = <<>>
  /\ delayed = {}
  /\ active = {}
  /\ completed = {}
  /\ failed = {}
  /\ failedJobs = <<>>
  /\ submits = 0

SendInit ==
  /\ payload = <<>>
  /\ pc = "idle"
  /\ idx = 0
  /\ caught = "none"
  /\ reports = <<>>
  /\ sends = <<>>
  /\ storeFaults = 0

\* the constructors have read notification.retryThreshold, here its default
Init == SendInit /\ QueueInit /\ CrudInit /\ maxRetries = DefaultRetryThreshold

Next ==
  \/ \E chs \in ChannelLists : Send(chs)
  \/ \E out \in Outcomes : SendTransport(out)
  \/ \E ok \in StoreAnswers : SaveSuccess(ok)
  \/ \E ok \in StoreAnswers : CatchSaveFail(ok)
  \/ \E out \in Outcomes : RetryTransport(out)
  \/ \E ok \in StoreAnswers : SaveRetrySuccess(ok)
  \/ \E ok \in StoreAnswers : RetryCatchSaveFail(ok)

Spec == Init /\ [][Next]_vars

QueueNext ==
  \/ \E ch \in JobChannels : QueueNotification(ch)
  \/ \E ch \in JobChannels, d \in ScheduleDelays : ScheduleNotification(ch, d)
  \/ Dequeue
  \/ \E j \in 1..MaxJobs, out \in Outcomes \cup {"unsupported"} : HandleNotification(j, out)
  \/ \E j \in 1..MaxJobs : Promote(j)
  \/ Tick
  \/ \E order \in SeqsUpTo(1..MaxJobs, MaxJobs) : ProcessFailedJobs(order)
  \/ VisitFailedJob

\* any configured threshold, not only the default
ConfiguredInit == SendInit /\ QueueInit /\ CrudInit /\ maxRetries \in Thresholds

QueueSpec == ConfiguredInit /\ [][QueueNext]_vars

\* the queue pipeline, its jobs added for immediate delivery on a channel
\* send knows, with processors that can die while they hold a job
CrashNext ==
  \/ \E ch \in JobChannels \cap KnownChannels : QueueNotification(ch)
  \/ Dequeue
  \/ \E j \in 1..MaxJobs, out \in Outcomes : HandleNotification(j, out)
  \/ \E j \in 1..MaxJobs : Promote(j)
  \/ Tick
  \/ \E order \in SeqsUpTo(1..MaxJobs, MaxJobs) : ProcessFailedJobs(order)
  \/ VisitFailedJob
  \/ \E j \in 1..MaxJobs : Stall(j)

CrashSpec == Init /\ [][CrashNext]_vars

\* requests to the users and roles controllers, for ids given out and not
CrudNext ==
  \/ CreateUser
  \/ \E id \in 1..MaxEntities, body \in UserBodies : UpdateUser(id, body)
  \/ \E id \in 1..MaxEntities : DeleteUser(id)
  \/ \E dto \in CreateRoleBodies : CreateRole(dto)
  \/ \E id \in 1..MaxEntities, body \in RoleBodies : UpdateRole(id, body)
  \/ \E id \in 1..MaxEntities : DeleteRole(id)

CrudSpec == Init /\ [][CrudNext]_vars

(* ======================= properties of send ============================ *)

\* the transport invocations on position i of the channel list
SendsAt(i) == SelectSeq(sends, LAMBDA t : t.pos = i)
Successes == SelectSeq(reports, LAMBDA r : r.status = "success")
AllKnown(chs) == \A k \in 1..Len(chs) : chs[k] \in KnownChannels

\* C1: the Delivery Report store holds at most one report with outcome
\* success for the request
C1_AtMostOneSuccess ==
  Len(Successes) <= 1

\* C3: first success wins: once a success report of the request is in the
\* store, no further transport is invoked and no further report is written
\* for it
C3_FirstSuccessWins ==
  [][Len(Successes) >= 1 => (sends' = sends /\ reports' = reports)]_vars

\* C4: failover ordering: consecutive attempts of a request are either the
\* one retry of the same list position, or the first attempt on the next
\* listed channel that send knows; no listed known channel is stepped over
\* and no earlier position is visited again
C4_FailoverOrdering ==
  /\ \A k \in 1..Len(sends) : sends[k].channel = payload[sends[k].pos]
  /\ Len(sends) >= 1 =>
       /\ sends[1].attempt = 1
       /\ \A m \in 1..(sends[1].pos - 1) : payload[m] \notin KnownChannels
  /\ \A k \in 1..(Len(sends) - 1) :
       LET a == sends[k]
           b == sends[k + 1]
       IN \/ /\ b.pos = a.pos
             /\ a.attempt = 1
             /\ b.attempt = 2
          \/ /\ b.pos > a.pos
             /\ b.attempt = 1
             /\ \A m \in (a.pos + 1)..(b.pos - 1) : payload[m] \notin KnownChannels

\* C4 witness: channel A of [A, B, C] failed on both attempts with transient
\* errors and the next transport invoked is that of B, first attempt
C4_Witness ==
  /\ Len(payload) = 3
  /\ AllKnown(payload)
  /\ Len(sends) >= 3
  /\ sends[1].pos = 1 /\ sends[1].outcome = "transient"
  /\ sends[2].pos = 1 /\ sends[2].outcome = "transient"
  /\ sends[3].pos = 2 /\ sends[3].attempt = 1

C8_PermanentNotRetried ==
  \A k \in 1..Len(sends) :
    (sends[k].attempt = 1 /\ sends[k].outcome = "permanent")
      => Len(SendsAt(sends[k].pos)) = 1

\* C8 as amended: whatever the error of the first attempt, permanent ones
\* included, the channel gets exactly one retry once the failed report is
\* saved, and never a third attempt; only then the loop moves on
C8_EveryFailureRetriedOnce ==
  \A i \in 1..Len(payload) :
    LET at == SendsAt(i)
    IN /\ Len(at) <= MaxAttemptsPerChannel
       /\ \A k \in 1..Len(at) : at[k].attempt = k
       /\ ( /\ Len(at) >= 1
            /\ at[1].outcome # "ok"
            /\ pc \in {"try", "saveSuccess", "done"}
            /\ idx > i )
          => Len(at) = MaxAttemptsPerChannel

\* C8 witness: Scenario B: the first channel threw a permanent error, was
\* retried once, and the dispatch has reached the second channel
C8_Witness ==
  /\ Len(payload) = 2
  /\ AllKnown(payload)
  /\ Len(SendsAt(1)) = 2
  /\ SendsAt(1)[1].outcome = "permanent"
  /\ Len(SendsAt(2)) = 1
  /\ SendsAt(2)[1].attempt = 1

(* ==================== properties of the queue ========================== *)

\* how often job id j is in the wait list
InWait(j) == Cardinality({k \in 1..Len(wait) : wait[k] = j})
\* in how many places of the queue job id j is
Places(j) ==
  InWait(j)
    + (IF j \in active THEN 1 ELSE 0)
    + (IF j \in delayed THEN 1 ELSE 0)
    + (IF j \in completed THEN 1 ELSE 0)
    + (IF j \in failed THEN 1 ELSE 0)

\* C2 as claimed: two submits of the same request while the first is not
\* terminal give one job chain: no two live jobs carry the same data
C2_OneChainPerKey ==
  \A j1, j2 \in Live : jobs[j1].channel = jobs[j2].channel => j1 = j2

\* C2 as amended: every call of the producer adds exactly one job of its
\* own, also when a live job with the same data exists: the queue holds as
\* many jobs as there were submits, each in one place
C2_OneJobPerSubmit ==
  /\ Len(jobs) = submits
  /\ \A j \in 1..Len(jobs) : Places(j) = 1

\* C2 witness: Scenario C: the first job has failed once and waits for its
\* retry, and the second submit of the same data has put a job of its own
\* into the wait list
C2_Witness ==
  /\ submits = 2
  /\ Len(jobs) = 2
  /\ jobs[1].channel = jobs[2].channel
  /\ jobs[1].attemptsMade = 1
  /\ 1 \in delayed
  /\ InWait(2) = 1
  /\ jobs[2].runs = 0

\* C5: a job is run at most as often as the retry ceiling maxRetries of
\* the consumer and the retry processor allows
C5_AttemptsBounded ==
  \A j \in 1..Len(jobs) : jobs[j].runs <= maxRetries

C9_SweeperRequeuesOnce ==
  /\ [](\A j \in 1..Len(jobs) : Places(j) = 1)
  /\ [](\A k \in 1..Len(failedJobs) : failedJobs[k] \in failed)
  /\ [][(failedJobs # <<>> /\ failedJobs' = Tail(failedJobs)) =>
          LET j == Head(failedJobs)
          IN IF jobs[j].attemptsMade < maxRetries
             THEN /\ wait' = Append(wait, j)
                  /\ failed' = failed \ {j}
                  /\ InWait(j) = 0
             ELSE /\ wait' = wait
                  /\ failed' = failed]_vars

\* C9 witness: a job that had used up the attempts of the queue and had
\* failed is back in the wait list, once
C9_Witness ==
  \E j \in 1..Len(jobs) :
    /\ jobs[j].attemptsMade >= jobs[j].attempts
    /\ InWait(j) = 1
    /\ j \notin failed

\* the jobs Bull may hand to a processor or has handed to one
Handed == {j \in 1..Len(jobs) : InWait(j) > 0 \/ j \in active}

\* C11: a job is handed to a processor only when the delay it is held for
\* (scheduleAt - now of a scheduled job, the backoff of a retried one) has
\* run down: every waiting or active job has no delay left, a job held in
\* the delayed set is in no other place, and a step that makes a job active
\* takes one that has no delay left
C11_NotBeforeDue ==
  /\ [](\A j \in Handed : jobs[j].delay = 0)
  /\ [](\A j \in delayed : j \notin Handed)
  /\ [][\A j \in active' \ active : jobs[j].delay = 0 /\ j \notin delayed]_vars

\* C11 witness: a job scheduled for later is held in the delayed set, not
\* yet run, although the wait list is empty and a processor is free, while
\* the job before it runs again after the backoff of its retry has passed
C11_Witness ==
  /\ Len(jobs) = 2
  /\ 2 \in delayed
  /\ jobs[2].runs = 0
  /\ jobs[2].delay > 0
  /\ wait = <<>>
  /\ active = {1}
  /\ Len(jobs[1].delays) >= 1

\* C12: the producer rejects a notification whose channel is missing or is
\* none the dispatcher knows, and enqueues nothing for it: no job of the
\* queue names an unknown channel, and a call adds at most one job
C12_SubmitValidates ==
  /\ \A j \in 1..Len(jobs) : jobs[j].channel \in KnownChannels
  /\ Len(jobs) <= submits

\* C13 as claimed: no failure of a notification is raised out of job
\* processing: handleNotification never ends by throwing
C13_NeverRaised ==
  \A j \in 1..Len(jobs) : ~jobs[j].threw

\* C13 as amended: handleNotification rethrows every error send throws,
\* whatever its kind, and only those; the queue counts the attempt, and a
\* job is completed only by a run whose send resolved
C13_FailuresRethrown ==
  \A j \in 1..Len(jobs) :
    /\ jobs[j].threw <=> jobs[j].lastSend \in {"transient", "permanent", "unsupported"}
    /\ jobs[j].threw => (jobs[j].attemptsMade >= 1 /\ j \notin completed)
    /\ j \in completed => jobs[j].lastSend = "ok"

\* C13 witness: a transient failure, a permanent failure and an unsupported
\* channel have each been thrown out of handleNotification to the queue
C13_Witness ==
  /\ \E j \in 1..Len(jobs) : jobs[j].threw /\ jobs[j].lastSend = "unsupported"
  /\ \E j \in 1..Len(jobs) :
       /\ jobs[j].threw
       /\ jobs[j].lastSend = "permanent"
       /\ jobs[j].attemptsMade = 2
       /\ j \in delayed

\* C14: retrying is disabled once the threshold is reached, for every
\* configured threshold: a job that has been processed retryThreshold times
\* is not processed again, neither by a retry of the queue nor by one of
\* the retry processor
C14_ThresholdDisablesRetry ==
  [][\A j \in 1..Len(jobs) :
       jobs[j].runs >= maxRetries => jobs'[j].runs = jobs[j].runs]_vars

\* C15: the delivery history is append-only: every step leaves the rows
\* already in the Delivery Report table where they are, with the values
\* they were written with, and can only add rows after them
C15_AppendOnly ==
  [][/\ Len(reports') >= Len(reports)
     /\ SubSeq(reports', 1, Len(reports)) = reports]_vars

\* C15 witness: the failed report of a first attempt is still in the table
\* after the success report of the retry of that channel was saved
C15_Witness ==
  /\ Len(reports) = 2
  /\ reports[1].status = "fail"
  /\ reports[1].retryCount = 1
  /\ reports[2].status = "success"
  /\ reports[2].pos = reports[1].pos

\* C16: an unknown channel is terminal: a job whose channel the dispatcher
\* does not know is processed once and never again, and after that run it
\* is neither held for a retry nor waiting nor active
C16_UnknownChannelTerminal ==
  \A j \in 1..Len(jobs) :
    (jobs[j].channel \notin KnownChannels /\ jobs[j].runs >= 1)
      => /\ jobs[j].runs = 1
         /\ j \notin delayed
         /\ InWait(j) = 0
         /\ j \notin active

\* the reports saved for position i of the channel list
ReportsAt(i) == SelectSeq(reports, LAMBDA r : r.pos = i)

C18_AtMostOneRequeue ==
  [][\A j \in 1..Len(jobs) :
       (Len(jobs') = Len(jobs) /\ jobs'[j].runs = jobs[j].runs + 1) =>
         /\ Len(wait') >= Len(wait)
         /\ (Len(wait') - Len(wait)) + Cardinality(delayed' \ delayed) <= 1
         /\ delayed' \ delayed \subseteq {j}
         /\ Len(wait') > Len(wait) => wait' = Append(wait, j)
         /\ delayed \subseteq delayed']_vars

\* C18 witness: a job was processed, failed, and is held for its one retry,
\* in the delayed set and nowhere else
C18_Witness ==
  \E j \in delayed :
    /\ jobs[j].runs = 1
    /\ jobs[j].lastSend = "transient"
    /\ jobs[j].delay = JobBackoff
    /\ Places(j) = 1

\* C19: the transient retry step: when a job is processed, send fails with
\* a transient error and attempts are left, the step writes the attempt
\* record of that run and holds exactly the one retry of the job, same
\* channel, attempt count one higher, for the backoff delay
C19_TransientRetryStep ==
  [][\A j \in 1..Len(jobs) :
       ( /\ Len(jobs') = Len(jobs)
         /\ jobs'[j].runs = jobs[j].runs + 1
         /\ jobs'[j].lastSend = "transient"
         /\ jobs[j].attemptsMade + 1 < jobs[j].attempts )
       => /\ Len(reports') = Len(reports) + 1
          /\ j \in delayed'
          /\ j \notin active'
          /\ jobs'[j].channel = jobs[j].channel
          /\ jobs'[j].attemptsMade = jobs[j].attemptsMade + 1
          /\ jobs'[j].delay = Backoff(jobs[j])]_vars

\* C20 as claimed: duplicate deliveries are absorbed: a job whose
\* notification was already delivered with success by a job with the same
\* data is acked without a call of send
C20_DuplicateAbsorbed ==
  [][\A j \in 1..Len(jobs) :
       (\E k \in completed : k # j /\ jobs[k].channel = jobs[j].channel)
         => jobs'[j].runs = jobs[j].runs]_vars

\* C20 as amended: the consumer calls send for every job handed to it,
\* whether or not a job with the same data has succeeded before: each run
\* that ended is one call of send, the failed ones counted by the queue and
\* the one that completed the job, and no job completes without its send
C20_EveryDeliveryInvokesSend ==
  \A j \in 1..Len(jobs) :
    /\ jobs[j].runs = jobs[j].attemptsMade + (IF j \in completed THEN 1 ELSE 0)
    /\ j \in completed => jobs[j].runs >= 1

\* C20 witness: two jobs with the same data have both completed, each by a
\* successful send of its own
C20_Witness ==
  /\ Len(jobs) = 2
  /\ jobs[1].channel = jobs[2].channel
  /\ completed = {1, 2}
  /\ jobs[1].runs = 1 /\ jobs[1].lastSend = "ok"
  /\ jobs[2].runs = 1 /\ jobs[2].lastSend = "ok"

\* the report that ends the work on a channel: a success, or the failure
\* of the retry
TerminalReport(r) ==
  r.status = "success" \/ r.retryCount = MaxAttemptsPerChannel

C22_StoreFailurePropagates ==
  [][storeFaults' > storeFaults => pc' = "thrown"]_vars

C24_OnlyTransientRequeued ==
  [][\A j \in failed \ failed' :
       /\ jobs[j].lastSend = "transient"
       /\ jobs[j].attemptsMade < maxRetries]_vars

\* C24: the retry processor re-queues only failed jobs whose attemptsMade is
\* below maxRetries, whatever the kind of their failure: a job leaves the
\* failed set only below the ceiling and only for the wait list, and a
\* failed job at the ceiling stays in the failed set as it is
C24_RequeuedOnlyBelowCeiling ==
  [][\A j \in failed :
       /\ j \notin failed' => /\ jobs[j].attemptsMade < maxRetries
                              /\ wait' = Append(wait, j)
       /\ jobs[j].attemptsMade >= maxRetries => /\ j \in failed'
                                                /\ jobs'[j] = jobs[j]
                                                /\ InWait(j)' = 0]_vars

\* C24 witness: under a ceiling above the attempts of the queue, a job that
\* used up those attempts and failed last with a permanent error was put
\* back to the wait list
C24_Witness ==
  \E j \in 1..Len(jobs) :
    /\ jobs[j].lastSend = "permanent"
    /\ jobs[j].attemptsMade = JobAttempts
    /\ jobs[j].attemptsMade < maxRetries
    /\ InWait(j) = 1


\* C25: send invokes the transport of a channel at most twice; it leaves a
\* channel whose first attempt failed only after the one retry; a call that
\* returned has tried every channel of the list that send knows; and a
\* call is cut short only by a rejected save of a delivery report, never by
\* the failure of a channel
C25_FailingChannelDoesNotBlock ==
  /\ \A i \in 1..Len(payload) :
       /\ Len(SendsAt(i)) <= MaxAttemptsPerChannel
       /\ (Len(SendsAt(i)) >= 1 /\ SendsAt(i)[1].outcome # "ok" /\ idx > i)
            => Len(SendsAt(i)) = MaxAttemptsPerChannel
       /\ (pc = "done" /\ payload[i] \in KnownChannels) => Len(SendsAt(i)) >= 1
  /\ pc = "thrown" => storeFaults >= 1

\* C25 witness: the first of two channels failed on the first attempt and
\* on the retry, the store accepted every report, and send went on to try
\* the second channel and returned
C25_Witness ==
  /\ pc = "done"
  /\ Len(payload) = 2
  /\ storeFaults = 0
  /\ Len(SendsAt(1)) = 2
  /\ \A k \in 1..2 : SendsAt(1)[k].outcome # "ok"
  /\ Len(SendsAt(2)) >= 1

\* C26: terminal states are absorbing: once the request has a success
\* report, or send has returned with every channel failed, no further
\* transport is invoked and no further report is written for the request
C26_TerminalAbsorbing ==
  [][(Len(Successes) >= 1 \/ pc = "done")
       => (Len(sends') = Len(sends) /\ Len(reports') = Len(reports))]_vars


C28_DeliveredNotResent ==
  \A i \in 1..Len(payload) :
    (Len(SendsAt(i)) >= 1 /\ SendsAt(i)[1].outcome = "ok")
      => /\ Len(SendsAt(i)) = 1
         /\ \A k \in 1..Len(ReportsAt(i)) : ReportsAt(i)[k].status # "fail"

\* C29: every job the queue holds for a processor (waiting, delayed or
\* active, whether added by the producer, retried by the queue or put back
\* by the retry processor) is on an attempt between 1 and the ceiling the
\* consumer reports for it: 1 <= attemptsMade + 1 <= maxRetries
C29_AttemptWithinCeiling ==
  \A j \in Live :
    /\ 1 <= jobs[j].attemptsMade + 1
    /\ jobs[j].attemptsMade + 1 <= maxRetries


\* the entities with an id other than id, in their order
Others(repo, id) == SelectSeq(repo, LAMBDA e : e.id # id)

====
